---- MODULE Spec2Model ----
(***************************************************************************)
(* The three entry points of the Imagen4 repository as one state machine:  *)
(*   imagen4_cli.py  (entry = "cli"),                                      *)
(*   example.py      (entry = "example"),                                  *)
(*   setup.py        (entry = "setup").                                    *)
(* A run is one process: Init chooses the entry point, its command line    *)
(* and the process environment; every action is one function or one        *)
(* statement group of the source, and the outcome of every external call   *)
(* (the API, a subprocess, the keyboard, the file system) is chosen with   *)
(* \E when the call is made.                                               *)
(*                                                                         *)
(* Text is a sequence of tokens.  A token is one character, except for the *)
(* literal fragments of the source's f-strings and file names, which are   *)
(* kept whole ("imagen4_", ".png", "GOOGLE_CLOUD_PROJECT=").  Python's     *)
(* None is the one-token sequence None, which no text equals.              *)
(***************************************************************************)
EXTENDS Integers, Sequences, FiniteSets, TLC

\* ------------------------------------------------------------------ bounds

\* Longest free-form part of a prompt.
MaxShort == 2
\* Most images in one generation response.
MaxImages == 2
\* Most projects in one project listing.
MaxProjects == 2

\* ------------------------------------------------------------- text helpers

None == <<"<None>">>

\* Python truthiness of an Optional[str]: None and "" are falsy.
Truthy(s) == s # None /\ s # <<>>

Min(a, b) == IF a < b THEN a ELSE b

\* s[:n]
Take(s, n) == SubSeq(s, 1, Min(n, Len(s)))

\* n characters of padding, alternately not alphanumeric and alphanumeric.
Filler(n) == [i \in 1..n |-> IF i % 2 = 1 THEN "." ELSE "7"]

\* Characters the free-form part of a prompt is drawn from, and the
\* alphanumeric ones among all characters of the model (str.isalnum).
Alphabet == {"a", " ", "_"}
AlnumChars == {"a", "7"}

IsAlnum(c) == c \in AlnumChars

\* Number of prompt characters kept in the file name: prompt[:30].
PrefixLen == 30

ShortText == UNION {[1..n -> Alphabet] : n \in 0..MaxShort}

\* Prompts shorter than, as long as and longer than PrefixLen.
Prompts == ShortText \cup {Filler(PrefixLen - 1) \o s : s \in ShortText}

\* "".join(c if c.isalnum() else "_" for c in prompt[:30]) without the
\* truncation: a plausible slip.
SafePromptNoTruncate(p) == [i \in 1..Len(p) |-> IF IsAlnum(p[i]) THEN p[i] ELSE "_"]

\* "".join(c if c.isalnum() else "_" for c in prompt[:30])
SafePrompt(p) == [i \in 1..Len(Take(p, PrefixLen)) |-> IF IsAlnum(Take(p, PrefixLen)[i]) THEN Take(p, PrefixLen)[i] ELSE "_"]

\* f"imagen4_{safe_prompt}.png"
ImageName(p) == <<"imagen4_">> \o SafePrompt(p) \o <<".png">>

TempDir == <<"<tmp>">>
Cwd == <<".">>

\* save_dir: Path(output_dir) when output_dir is truthy, else the temp dir.
SaveDir(output_dir) == IF Truthy(output_dir) THEN output_dir ELSE TempDir

\* save_dir / f"imagen4_{safe_prompt}.png"
ImagePath(output_dir, p) == [dir |-> SaveDir(output_dir), name |-> ImageName(p)]

ExamplePath == [dir |-> Cwd, name |-> <<"example_output.png">>]
TestImagePath == [dir |-> TempDir, name |-> <<"imagen4_test.png">>]

\* ------------------------------------------------------------ input domains

ProjA == <<"p", "a">>
ProjB == <<"p", "b">>
ProjC == <<"p", "c">>

\* Raw bytes of a generated image.
ImageData == {<<137, 80>>, <<255, 216>>}

\* A generation response: generated_images, at least one image.
Responses == UNION {[1..n -> ImageData] : n \in 1..MaxImages}

\* response.generated_images[-1]: a plausible slip.
LastImage(resp) == resp[Len(resp)]

\* response.generated_images[0].image.data
FirstImage(resp) == resp[1]

Prefixes(d) == {SubSeq(d, 1, k) : k \in 0..Len(d)}

CliArgs == [project : {None, <<>>, ProjA}, prompt : {None} \cup Prompts, output_dir : {None, <<"o", "u", "t">>}]
NoArgs == [project |-> None, prompt |-> None, output_dir |-> None]

EnvValues == {None, <<>>, ProjB}

\* What the user may type at a project prompt: empty, numbers, ids.
SUP2 == "^2"
TypedIds == {<<>>, <<"0">>, <<"1">>, <<"2">>, <<"9">>, <<"0", "1">>, <<SUP2>>, ProjA, ProjC}

\* The zero value of a path-valued variable (generate_image's None).
NoPath == [dir |-> None, name |-> None]

\* ---------------------------------------------------------------- variables

VARIABLES
  entry,       \* which script this process runs
  pc,          \* position in the script
  environ,     \* os.environ["GOOGLE_CLOUD_PROJECT"], None when unset
  args,        \* the parsed command line (CLI)
  project_id,  \* the project_id local of the running function
  client,      \* project the genai.Client was constructed with, None before
  prompt,      \* the prompt sent to the API
  response,    \* the generation response, <<>> before the call returns
  fs,          \* image files opened for writing in this run: path -> state
  out,         \* messages printed to the console, in order
  inputs,      \* input() prompts shown to the user, in order
  status,      \* the exit status once pc = "exit"
  apiCalls,    \* number of generate_images calls issued
  viewer,      \* path handed to webbrowser.open, NoPath when none
  exc,         \* the exception in flight
  raised,      \* the call sites that have raised in this run
  image_path,  \* generate_image's return value (CLI)
  steps,       \* wizard steps started, in order (print_step)
  ret,         \* return value of the last wizard step function
  gcloud_cmd,  \* main's gcloud_cmd_to_use
  path_dirs,   \* directories prepended to os.environ["PATH"]
  dotenv,      \* content of the .env file, None when absent
  listCalls,   \* number of "gcloud projects list" invocations
  failed,      \* wizard steps that returned failure or raised
  envWrites,   \* number of times the .env file was written
  conf,        \* configure_project's frame: what it was called with and answered
  main_ret     \* the wizard main()'s return value

vars == <<entry, pc, environ, args, project_id, client, prompt, response, fs, out, inputs, status, apiCalls, viewer, exc, raised, image_path, steps, ret, gcloud_cmd, path_dirs, dotenv, listCalls, failed, envWrites, conf, main_ret>>

\* The variables only the wizard touches.
wizardVars == <<steps, ret, gcloud_cmd, path_dirs, dotenv, listCalls, failed, envWrites, conf, main_ret>>

\* f"GOOGLE_CLOUD_PROJECT={project_id}\n"
EnvLine(id) == <<"GOOGLE_CLOUD_PROJECT=">> \o id \o <<"\n">>

NoRet == [kind |-> "none", ok |-> FALSE, value |-> None]

\* configure_project not called yet.
NoConf == [called |-> FALSE, env0 |-> None, dotenv0 |-> None, change |-> <<>>, listing |-> [kind |-> "fail", value |-> [type |-> "null", items |-> <<>>]], typed |-> <<>>]

EntryPc(e) == CASE e = "cli" -> "cli_setup_client" [] e = "example" -> "ex_project" [] e = "setup" -> "su_python"

Init ==
  /\ entry \in {"cli", "example", "setup"}
  /\ pc = EntryPc(entry)
  /\ environ \in EnvValues
  /\ args \in (IF entry = "cli" THEN CliArgs ELSE {NoArgs})
  /\ dotenv \in (IF entry = "setup" THEN {None, EnvLine(ProjC)} ELSE {None})
  /\ project_id = None
  /\ client = None
  /\ prompt = None
  /\ response = <<>>
  /\ fs = [x \in {} |-> x]
  /\ out = <<>>
  /\ inputs = <<>>
  /\ status = 0
  /\ apiCalls = 0
  /\ viewer = NoPath
  /\ exc = "none"
  /\ raised = {}
  /\ image_path = NoPath
  /\ steps = <<>>
  /\ ret = NoRet
  /\ gcloud_cmd = None
  /\ path_dirs = <<>>
  /\ listCalls = 0
  /\ failed = {}
  /\ envWrites = 0
  /\ conf = NoConf
  /\ main_ret = "none"

\* ------------------------------------------------------------ file helpers

\* open(path, "wb"): the file exists, empty, and is not yet closed.
OpenFile(f, path) == (path :> [data |-> <<>>, closed |-> FALSE]) @@ f

\* A write whose file is never closed.
WriteLeftOpen(f, path, d) == [f EXCEPT ![path] = [data |-> d, closed |-> FALSE]]

\* f.write(data) and the end of the with block.
WriteClose(f, path, d) == [f EXCEPT ![path] = [data |-> d, closed |-> TRUE]]

Say(msg) == out' = Append(out, msg)

Raise(site, kind, handler) == exc' = kind /\ raised' = raised \cup {site} /\ pc' = handler

\* -------------------------------------------------------- imagen4_cli.py

\* The project the client is built for: the argument, else the environment.
ResolveProject(arg, env) == IF Truthy(arg) THEN arg ELSE env

\* setup_client without its second "if not project_id" check.
ProjectMissingNever(pid) == FALSE

\* setup_client's "if not project_id: raise ValueError(...)".
ProjectMissing(pid) == ~Truthy(pid)

\* main: client = setup_client(project_id=args.project, ...)
CliSetupClient ==
  /\ pc = "cli_setup_client"
  /\ project_id' = ResolveProject(args.project, environ)
  /\ IF ProjectMissing(project_id')
       THEN Raise("setup_client", "ValueError", "cli_except") /\ UNCHANGED client
       ELSE client' = project_id' /\ pc' = "cli_prompt" /\ UNCHANGED <<exc, raised>>
  /\ UNCHANGED <<entry, environ, args, prompt, response, fs, out, inputs, status, apiCalls, viewer, image_path, wizardVars>>

\* main: prompt = args.prompt, or input("Enter your image prompt: ")
CliGetPrompt ==
  /\ pc = "cli_prompt"
  /\ IF Truthy(args.prompt)
       THEN prompt' = args.prompt /\ pc' = "cli_generate" /\ UNCHANGED <<inputs, exc, raised>>
       ELSE /\ inputs' = Append(inputs, "Enter your image prompt: ")
            /\ \/ \E typed \in Prompts : prompt' = typed /\ pc' = "cli_generate" /\ UNCHANGED <<exc, raised>>
               \/ Raise("input", "KeyboardInterrupt", "cli_except") /\ UNCHANGED prompt
  /\ UNCHANGED <<entry, environ, args, project_id, client, response, fs, out, status, apiCalls, viewer, image_path, wizardVars>>

\* generate_image: the print and client.models.generate_images(...)
CliGenerate ==
  /\ pc = "cli_generate"
  /\ Say("Generating image with prompt")
  /\ apiCalls' = apiCalls + 1
  /\ \/ \E r \in Responses : response' = r /\ pc' = "cli_open" /\ UNCHANGED <<exc, raised>>
     \/ Raise("generate", "Exception", "cli_gen_except") /\ UNCHANGED response
  /\ UNCHANGED <<entry, environ, args, project_id, client, prompt, fs, inputs, status, viewer, image_path, wizardVars>>

\* generate_image: save_dir, the file name and open(image_path, "wb")
CliOpen ==
  /\ pc = "cli_open"
  /\ \/ fs' = OpenFile(fs, ImagePath(args.output_dir, prompt)) /\ pc' = "cli_write" /\ UNCHANGED <<exc, raised>>
     \/ Raise("open", "Exception", "cli_gen_except") /\ UNCHANGED fs
  /\ UNCHANGED <<entry, environ, args, project_id, client, prompt, response, out, inputs, status, apiCalls, viewer, image_path, wizardVars>>

\* generate_image: f.write(response.generated_images[0].image.data), close
CliWrite ==
  /\ pc = "cli_write"
  /\ \/ fs' = WriteClose(fs, ImagePath(args.output_dir, prompt), FirstImage(response)) /\ pc' = "cli_report" /\ UNCHANGED <<exc, raised>>
     \/ \E d \in Prefixes(FirstImage(response)) :
          fs' = WriteClose(fs, ImagePath(args.output_dir, prompt), d) /\ Raise("write", "Exception", "cli_gen_except")
  /\ UNCHANGED <<entry, environ, args, project_id, client, prompt, response, out, inputs, status, apiCalls, viewer, image_path, wizardVars>>

\* generate_image: print(f"Image saved to: ..."); return str(image_path)
CliReport ==
  /\ pc = "cli_report"
  /\ Say("Image saved to")
  /\ image_path' = ImagePath(args.output_dir, prompt)
  /\ pc' = "cli_display"
  /\ UNCHANGED <<entry, environ, args, project_id, client, prompt, response, fs, inputs, status, apiCalls, viewer, exc, raised, wizardVars>>

\* generate_image that calls the API again after a failure.
RetryAfterGenExcept == "cli_generate"

\* Where control goes after generate_image's except clause: back to main,
\* at "if image_path:".
AfterGenExcept == "cli_display"

\* generate_image: except Exception: print(...); return None
CliGenExcept ==
  /\ pc = "cli_gen_except"
  /\ Say("Error generating image")
  /\ image_path' = NoPath
  /\ exc' = "none"
  /\ pc' = AfterGenExcept
  /\ UNCHANGED <<entry, environ, args, project_id, client, prompt, response, fs, inputs, status, apiCalls, viewer, raised, wizardVars>>

\* os.path.exists(image_path)
Exists(f, path) == path \in DOMAIN f

\* main: if image_path: display_image(image_path)
CliDisplay ==
  /\ pc = "cli_display"
  /\ IF image_path # NoPath
       THEN IF Exists(fs, image_path)
              THEN Say("Opening image") /\ viewer' = image_path
              ELSE Say("No image to display.") /\ UNCHANGED viewer
       ELSE UNCHANGED <<out, viewer>>
  /\ pc' = "cli_return"
  /\ UNCHANGED <<entry, environ, args, project_id, client, prompt, response, fs, inputs, status, apiCalls, exc, raised, image_path, wizardVars>>

\* main returns and the interpreter exits with status 0.
CliReturn ==
  /\ pc = "cli_return"
  /\ pc' = "exit"
  /\ status' = 0
  /\ UNCHANGED <<entry, environ, args, project_id, client, prompt, response, fs, out, inputs, apiCalls, viewer, exc, raised, image_path, wizardVars>>

\* main: except KeyboardInterrupt: sys.exit(0); except Exception: sys.exit(1)
CliExcept ==
  /\ pc = "cli_except"
  /\ IF exc = "KeyboardInterrupt"
       THEN Say("Operation cancelled by user.") /\ status' = 0
       ELSE Say("Error:") /\ status' = 1
  /\ pc' = "exit"
  /\ UNCHANGED <<entry, environ, args, project_id, client, prompt, response, fs, inputs, apiCalls, viewer, exc, raised, image_path, wizardVars>>

\* ------------------------------------------------------------- example.py

\* project_id from the environment, else input(...); then genai.Client(...)
ExGetProject ==
  /\ pc = "ex_project"
  /\ IF Truthy(environ)
       THEN project_id' = environ /\ UNCHANGED inputs
       ELSE /\ inputs' = Append(inputs, "Enter your Google Cloud project ID: ")
            /\ \E typed \in TypedIds : project_id' = typed
  /\ client' = project_id'
  /\ prompt' = <<"<example prompt>">>
  /\ pc' = "ex_generate"
  /\ UNCHANGED <<entry, environ, args, response, fs, out, status, apiCalls, viewer, exc, raised, image_path, wizardVars>>

\* image = client.models.generate_images(...)
ExGenerate ==
  /\ pc = "ex_generate"
  /\ apiCalls' = apiCalls + 1
  /\ \/ \E r \in Responses : response' = r /\ pc' = "ex_open" /\ UNCHANGED <<exc, raised>>
     \/ Raise("generate", "Exception", "ex_uncaught") /\ UNCHANGED response
  /\ UNCHANGED <<entry, environ, args, project_id, client, prompt, fs, out, inputs, status, viewer, image_path, wizardVars>>

\* open("example_output.png", "wb")
ExOpen ==
  /\ pc = "ex_open"
  /\ \/ fs' = OpenFile(fs, ExamplePath) /\ pc' = "ex_write" /\ UNCHANGED <<exc, raised>>
     \/ Raise("open", "Exception", "ex_uncaught") /\ UNCHANGED fs
  /\ UNCHANGED <<entry, environ, args, project_id, client, prompt, response, out, inputs, status, apiCalls, viewer, image_path, wizardVars>>

\* f.write(image.generated_images[0].image.data), close
ExWrite ==
  /\ pc = "ex_write"
  /\ \/ fs' = WriteClose(fs, ExamplePath, FirstImage(response)) /\ pc' = "ex_report" /\ UNCHANGED <<exc, raised>>
     \/ \E d \in Prefixes(FirstImage(response)) :
          fs' = WriteClose(fs, ExamplePath, d) /\ Raise("write", "Exception", "ex_uncaught")
  /\ UNCHANGED <<entry, environ, args, project_id, client, prompt, response, out, inputs, status, apiCalls, viewer, image_path, wizardVars>>

\* print("Image generated and saved as 'example_output.png'"); end of script
ExReport ==
  /\ pc = "ex_report"
  /\ Say("Image generated and saved")
  /\ pc' = "exit"
  /\ status' = 0
  /\ UNCHANGED <<entry, environ, args, project_id, client, prompt, response, fs, inputs, apiCalls, viewer, exc, raised, image_path, wizardVars>>

\* No handler in the script: the interpreter prints the traceback, status 1.
ExUncaught ==
  /\ pc = "ex_uncaught"
  /\ Say("Traceback")
  /\ pc' = "exit"
  /\ status' = 1
  /\ UNCHANGED <<entry, environ, args, project_id, client, prompt, response, fs, inputs, apiCalls, viewer, exc, raised, image_path, wizardVars>>

\* --------------------------------------------------------------- setup.py

\* sys.version_info (major, minor) of the interpreters the wizard may run on.
Versions == {<<2, 7>>, <<3, 6>>, <<3, 7>>, <<3, 12>>}

\* check_python_version: not (major < 3 or (major == 3 and minor < 7))
VersionOk(v) == ~(v[1] < 3 \/ (v[1] = 3 /\ v[2] < 7))

\* main that ignores a step's result.
MainContinueAlways(ok, next) == pc' = next /\ UNCHANGED main_ret

\* main: "if not <step>: return False", else on to the next step.
MainContinue(ok, next) == IF ok THEN pc' = next /\ UNCHANGED main_ret ELSE pc' = "su_main_returned" /\ main_ret' = "False"

StartStep(k) == steps' = Append(steps, k)

StepResult(k, ok) == failed' = IF ok THEN failed ELSE failed \cup {k}

\* check_python_version, and main's test of its result
SuCheckPython ==
  /\ pc = "su_python"
  /\ StartStep(1)
  /\ \E v \in Versions :
       /\ Say(IF VersionOk(v) THEN "Python version is compatible." ELSE "Python 3.7 or higher is required.")
       /\ StepResult(1, VersionOk(v))
       /\ MainContinue(VersionOk(v), "su_deps")
  /\ UNCHANGED <<entry, environ, args, project_id, client, prompt, response, fs, inputs, status, apiCalls, viewer, exc, raised, image_path, ret, gcloud_cmd, path_dirs, dotenv, listCalls, envWrites, conf>>

\* install_dependencies, and main's test of its result
SuInstallDeps ==
  /\ pc = "su_deps"
  /\ StartStep(2)
  /\ \E requirements \in BOOLEAN, pip \in BOOLEAN :
       /\ Say(IF ~requirements THEN "requirements.txt not found"
              ELSE IF ~pip THEN "Failed to install dependencies" ELSE "Dependencies installed successfully.")
       /\ StepResult(2, requirements /\ pip)
       /\ MainContinue(requirements /\ pip, "su_gcloud")
  /\ UNCHANGED <<entry, environ, args, project_id, client, prompt, response, fs, inputs, status, apiCalls, viewer, exc, raised, image_path, ret, gcloud_cmd, path_dirs, dotenv, listCalls, envWrites, conf>>

Gcloud == <<"gcloud">>
SdkBin(localAppData) == IF localAppData THEN <<"<LOCALAPPDATA>/Google/Cloud SDK/google-cloud-sdk/bin">> ELSE <<"C:/Users/chris/AppData/Local/Google/Cloud SDK/google-cloud-sdk/bin">>
SdkGcloud(localAppData) == SdkBin(localAppData) \o <<"/gcloud.cmd">>

\* A step function's return value: a bare bool, or a (ok, value) tuple.
BareBool(b) == [kind |-> "bool", ok |-> b, value |-> None]
Pair(b, v) == [kind |-> "tuple", ok |-> b, value |-> v]

\* check_gcloud_installation's return value: "return False" at the failure
\* message, "return True, gcloud_cmd" at the end.
GcloudReturn(success, cmd) == IF success THEN Pair(TRUE, cmd) ELSE BareBool(FALSE)

\* check_gcloud_installation
SuCheckGcloud ==
  /\ pc = "su_gcloud"
  /\ StartStep(3)
  /\ \E first \in BOOLEAN, system \in {"Windows", "Linux", "Darwin"}, localAppData \in BOOLEAN, pathExists \in BOOLEAN, second \in BOOLEAN :
       LET tryFull == ~first /\ system = "Windows" /\ pathExists
           cmd == IF tryFull THEN SdkGcloud(localAppData) ELSE Gcloud
           success == first \/ (tryFull /\ second)
       IN /\ Say(IF success THEN "Google Cloud SDK is installed." ELSE "Google Cloud SDK (gcloud) is not installed or not in PATH.")
          /\ path_dirs' = IF success /\ cmd # Gcloud THEN <<SdkBin(localAppData)>> \o path_dirs ELSE path_dirs
          /\ ret' = GcloudReturn(success, cmd)
          /\ StepResult(3, success)
  /\ pc' = "su_unpack_gcloud"
  /\ UNCHANGED <<entry, environ, args, project_id, client, prompt, response, fs, inputs, status, apiCalls, viewer, exc, raised, image_path, gcloud_cmd, dotenv, listCalls, envWrites, conf, main_ret>>

\* main: gcloud_ok, gcloud_cmd_to_use = check_gcloud_installation()
\*       if not gcloud_ok: return False
SuUnpackGcloud ==
  /\ pc = "su_unpack_gcloud"
  /\ IF ret.kind = "tuple"
       THEN gcloud_cmd' = ret.value /\ MainContinue(ret.ok, "su_auth") /\ UNCHANGED <<exc, raised>>
       ELSE Raise("unpack", "TypeError", "su_dunder_except") /\ UNCHANGED <<gcloud_cmd, main_ret>>
  /\ UNCHANGED <<entry, environ, args, project_id, client, prompt, response, fs, out, inputs, status, apiCalls, viewer, image_path, steps, ret, path_dirs, dotenv, listCalls, envWrites, conf, failed>>

\* setup_gcloud_auth, and main's test of its result
SuSetupAuth ==
  /\ pc = "su_auth"
  /\ StartStep(4)
  /\ inputs' = Append(inputs, "Press Enter to continue...")
  /\ \/ \E login \in BOOLEAN :
          /\ Say(IF login THEN "Google Cloud authentication set up successfully." ELSE "Failed to set up authentication")
          /\ StepResult(4, login)
          /\ MainContinue(login, "su_project")
          /\ UNCHANGED <<exc, raised>>
     \/ /\ Raise("input", "KeyboardInterrupt", "su_dunder_except")
        /\ StepResult(4, FALSE)
        /\ UNCHANGED <<out, main_ret>>
  /\ UNCHANGED <<entry, environ, args, project_id, client, prompt, response, fs, status, apiCalls, viewer, image_path, ret, gcloud_cmd, path_dirs, dotenv, listCalls, envWrites, conf>>

\* str.lower() on the answers the model offers.
Lower(s) == [i \in 1..Len(s) |-> IF s[i] = "Y" THEN "y" ELSE IF s[i] = "N" THEN "n" ELSE s[i]]

Answers == {<<>>, <<"y">>, <<"Y">>, <<"n">>}

\* int() of one decimal character.
DigitVal == [c \in {"0", "1", "2", "3", "4", "5", "6", "7", "8", "9"} |-> CASE c = "0" -> 0 [] c = "1" -> 1 [] c = "2" -> 2 [] c = "3" -> 3 [] c = "4" -> 4 [] c = "5" -> 5 [] c = "6" -> 6 [] c = "7" -> 7 [] c = "8" -> 8 [] c = "9" -> 9]

\* str.isdigit(): non-empty and every character a digit; U+00B2 is a digit
\* to isdigit() and is refused by int().
IsDigit(s) == Len(s) > 0 /\ \A i \in 1..Len(s) : s[i] \in DOMAIN DigitVal \cup {SUP2}

IntParses(s) == Len(s) > 0 /\ \A i \in 1..Len(s) : s[i] \in DOMAIN DigitVal

RECURSIVE IntOf(_)
IntOf(s) == IF Len(s) = 0 THEN 0 ELSE 10 * IntOf(SubSeq(s, 1, Len(s) - 1)) + DigitVal[s[Len(s)]]

\* The projects "gcloud projects list --format=json" may report.
Projects == {[projectId |-> ProjA], [projectId |-> ProjB]}
ProjectLists == UNION {[1..n -> Projects] : n \in 0..MaxProjects}

\* What json.loads may return for the listing's output: a list of project
\* objects, null, or an object (type "dict", its one key under items).
JsonValues == {[type |-> "list", items |-> l] : l \in ProjectLists} \cup {[type |-> "null", items |-> <<>>], [type |-> "dict", items |-> <<[projectId |-> <<"error">>]>>]}

\* run_command([gcloud, "projects", "list", "--format=json"]): the command
\* fails, prints something that is not JSON, or prints a JSON value.
Listings == {[kind |-> "fail", value |-> [type |-> "null", items |-> <<>>]], [kind |-> "nonjson", value |-> [type |-> "null", items |-> <<>>]]} \cup {[kind |-> "json", value |-> v] : v \in JsonValues}

\* Python truthiness of a parsed JSON value ("if not projects").
JsonTruthy(v) == v.type # "null" /\ Len(v.items) > 0

\* configure_project without its "except json.JSONDecodeError" clause.
ListingBranchNoExcept(l) == CASE l.kind = "fail" -> "manual_failed" [] l.kind = "nonjson" -> "crash" [] ~JsonTruthy(l.value) -> "manual_empty" [] l.value.type = "list" -> "select" [] OTHER -> "crash"

\* The branch configure_project takes on the listing's result: the three
\* manual-entry fallbacks, the numbered selection, or an uncaught TypeError
\* (project['projectId'] on something that is not a project object).
ListingBranch(l) == CASE l.kind = "fail" -> "manual_failed" [] l.kind = "nonjson" -> "manual_parse" [] ~JsonTruthy(l.value) -> "manual_empty" [] l.value.type = "list" -> "select" [] OTHER -> "crash"

BranchMessage(b) == CASE b = "manual_failed" -> <<"Failed to list projects">> [] b = "manual_parse" -> <<"Failed to parse project list.">> [] b = "manual_empty" -> <<"No projects found in your Google Cloud account.">> [] b = "select" -> <<"Available projects:">> [] OTHER -> <<>>

BranchInput(b) == CASE b = "manual_failed" -> <<"Enter your Google Cloud project ID manually: ">> [] b = "manual_parse" -> <<"Enter your Google Cloud project ID manually: ">> [] b = "manual_empty" -> <<"Enter your Google Cloud project ID: ">> [] b = "select" -> <<"Select a project number or enter a project ID manually: ">> [] OTHER -> <<>>

\* The project id chosen from the numbered list by the typed choice.
Selected(projects, choice) == IF IsDigit(choice) /\ 1 <= IntOf(choice) /\ IntOf(choice) <= Len(projects) THEN projects[IntOf(choice)].projectId ELSE choice

\* "if change != 'y': return True, project_id" only when an id is set.
KeepExisting(env, change) == Truthy(env) /\ Lower(change) # <<"y">>

\* configure_project that leaves os.environ as it found it.
ConfiguredEnvironStale(env, id) == env

\* os.environ["GOOGLE_CLOUD_PROJECT"] = project_id
ConfiguredEnviron(env, id) == id

\* configure_project as a function of the environment value and of what
\* the user and gcloud answer: what it asks, prints, lists, raises, writes
\* and the id it returns.
ConfigureProject(env, change, listing, typed) ==
  LET askChange == IF Truthy(env) THEN <<"Do you want to change it? (y/N): ">> ELSE <<>>
      b == ListingBranch(listing)
      raises == IF b = "crash" THEN "TypeError"
                ELSE IF b = "select" /\ IsDigit(typed) /\ ~IntParses(typed) THEN "ValueError" ELSE "none"
      id == IF b = "select" /\ raises = "none" THEN Selected(listing.value.items, typed) ELSE typed
  IN IF KeepExisting(env, change)
       THEN [asked |-> askChange, msgs |-> <<>>, listed |-> 0, raises |-> "none", wrote |-> FALSE, id |-> env]
       ELSE [asked |-> askChange \o BranchInput(b), msgs |-> BranchMessage(b), listed |-> 1, raises |-> raises, wrote |-> raises = "none", id |-> id]

\* configure_project(gcloud_cmd_to_use)
SuConfigureProject ==
  /\ pc = "su_project"
  /\ StartStep(5)
  /\ \E change \in Answers, listing \in Listings, typed \in TypedIds :
       LET o == ConfigureProject(environ, change, listing, typed)
       IN /\ inputs' = inputs \o o.asked
          /\ listCalls' = listCalls + o.listed
          /\ environ' = IF o.wrote THEN ConfiguredEnviron(environ, o.id) ELSE environ
          /\ dotenv' = IF o.wrote THEN EnvLine(o.id) ELSE dotenv
          /\ envWrites' = IF o.wrote THEN envWrites + 1 ELSE envWrites
          /\ conf' = [called |-> TRUE, env0 |-> environ, dotenv0 |-> dotenv, change |-> change, listing |-> listing, typed |-> typed]
          /\ StepResult(5, o.raises = "none")
          /\ IF o.raises = "none"
               THEN /\ out' = out \o o.msgs \o (IF o.wrote THEN <<"Project ID configured and saved to .env file.">> ELSE <<>>)
                    /\ ret' = Pair(TRUE, o.id)
                    /\ pc' = "su_unpack_project"
                    /\ UNCHANGED <<exc, raised>>
               ELSE /\ out' = out \o o.msgs
                    /\ Raise("configure_project", o.raises, "su_dunder_except")
                    /\ UNCHANGED ret
  /\ UNCHANGED <<entry, args, project_id, client, prompt, response, fs, status, apiCalls, viewer, image_path, gcloud_cmd, path_dirs, main_ret>>

\* main: success, project_id = configure_project(...); if not success: ...
\* The callee's frame is gone once main holds the result.
SuUnpackProject ==
  /\ pc = "su_unpack_project"
  /\ project_id' = ret.value
  /\ MainContinue(ret.ok, "su_test_import")
  /\ conf' = NoConf
  /\ UNCHANGED <<entry, environ, args, client, prompt, response, fs, out, inputs, status, apiCalls, viewer, exc, raised, image_path, steps, ret, gcloud_cmd, path_dirs, dotenv, listCalls, envWrites, failed>>

\* test_imagen_api: the imports (except ImportError: return False) and
\* genai.Client(vertexai=True, project=project_id, ...)
SuTestImport ==
  /\ pc = "su_test_import"
  /\ StartStep(6)
  /\ \/ /\ Say("Initializing client...")
        /\ client' = project_id
        /\ prompt' = <<"A simple blue circle on a white background">>
        /\ pc' = "su_test_generate"
        /\ UNCHANGED <<failed, main_ret, raised>>
     \/ /\ Say("Failed to import required modules.")
        /\ raised' = raised \cup {"import"}
        /\ StepResult(6, FALSE)
        /\ MainContinue(FALSE, "su_done")
        /\ UNCHANGED <<client, prompt>>
  /\ UNCHANGED <<entry, environ, args, project_id, response, fs, inputs, status, apiCalls, viewer, exc, image_path, ret, gcloud_cmd, path_dirs, dotenv, listCalls, envWrites, conf>>

\* test_imagen_api: client.models.generate_images(...)
SuTestGenerate ==
  /\ pc = "su_test_generate"
  /\ Say("Testing API access with a simple prompt...")
  /\ apiCalls' = apiCalls + 1
  /\ \/ \E r \in Responses : response' = r /\ pc' = "su_test_open" /\ UNCHANGED <<exc, raised>>
     \/ Raise("generate", "Exception", "su_test_except") /\ UNCHANGED response
  /\ UNCHANGED <<entry, environ, args, project_id, client, prompt, fs, inputs, status, viewer, image_path, wizardVars>>

\* test_imagen_api: open(test_image_path, "wb")
SuTestOpen ==
  /\ pc = "su_test_open"
  /\ \/ fs' = OpenFile(fs, TestImagePath) /\ pc' = "su_test_write" /\ UNCHANGED <<exc, raised>>
     \/ Raise("open", "Exception", "su_test_except") /\ UNCHANGED fs
  /\ UNCHANGED <<entry, environ, args, project_id, client, prompt, response, out, inputs, status, apiCalls, viewer, image_path, wizardVars>>

\* test_imagen_api: f.write(response.generated_images[0].image.data), close
SuTestWrite ==
  /\ pc = "su_test_write"
  /\ \/ fs' = WriteClose(fs, TestImagePath, FirstImage(response)) /\ pc' = "su_test_report" /\ UNCHANGED <<exc, raised>>
     \/ \E d \in Prefixes(FirstImage(response)) :
          fs' = WriteClose(fs, TestImagePath, d) /\ Raise("write", "Exception", "su_test_except")
  /\ UNCHANGED <<entry, environ, args, project_id, client, prompt, response, out, inputs, status, apiCalls, viewer, image_path, wizardVars>>

\* test_imagen_api: the success messages, the offer to view the image,
\* return True; and main's test of the result
SuTestReport ==
  /\ pc = "su_test_report"
  /\ out' = out \o <<"Successfully connected to Imagen API!", "Test image saved to">>
  /\ inputs' = Append(inputs, "Do you want to view the test image? (y/N): ")
  /\ \E view \in Answers : viewer' = IF Lower(view) = <<"y">> THEN TestImagePath ELSE viewer
  /\ StepResult(6, TRUE)
  /\ MainContinue(TRUE, "su_done")
  /\ UNCHANGED <<entry, environ, args, project_id, client, prompt, response, fs, status, apiCalls, exc, raised, image_path, steps, ret, gcloud_cmd, path_dirs, dotenv, listCalls, envWrites, conf>>

\* test_imagen_api: except Exception: print(...); return False; and main's
\* test of the result
SuTestExcept ==
  /\ pc = "su_test_except"
  /\ Say("Failed to connect to Imagen API")
  /\ exc' = "none"
  /\ StepResult(6, FALSE)
  /\ MainContinue(FALSE, "su_done")
  /\ UNCHANGED <<entry, environ, args, project_id, client, prompt, response, fs, inputs, status, apiCalls, viewer, raised, image_path, steps, ret, gcloud_cmd, path_dirs, dotenv, listCalls, envWrites, conf>>

\* main: the closing banner and "return True"
SuDone ==
  /\ pc = "su_done"
  /\ Say("Setup completed successfully!")
  /\ main_ret' = "True"
  /\ pc' = "su_main_returned"
  /\ UNCHANGED <<entry, environ, args, project_id, client, prompt, response, fs, inputs, status, apiCalls, viewer, exc, raised, image_path, steps, ret, gcloud_cmd, path_dirs, dotenv, listCalls, envWrites, conf, failed>>

\* __main__: sys.exit(0 if success else 1)
SuExit ==
  /\ pc = "su_main_returned"
  /\ status' = IF main_ret = "True" THEN 0 ELSE 1
  /\ pc' = "exit"
  /\ UNCHANGED <<entry, environ, args, project_id, client, prompt, response, fs, out, inputs, apiCalls, viewer, exc, raised, image_path, wizardVars>>

\* __main__: except KeyboardInterrupt / except Exception: print, sys.exit(1)
SuDunderExcept ==
  /\ pc = "su_dunder_except"
  /\ Say(IF exc = "KeyboardInterrupt" THEN "Setup cancelled by user." ELSE "An unexpected error occurred")
  /\ status' = 1
  /\ pc' = "exit"
  /\ UNCHANGED <<entry, environ, args, project_id, client, prompt, response, fs, inputs, apiCalls, viewer, exc, raised, image_path, wizardVars>>

\* ------------------------------------------------------------------ claims

Range(q) == {q[i] : i \in 1..Len(q)}

WriteSites == {"open", "write"}
GenerationSites == {"generate", "open", "write"}

\* C1: the wizard starts its steps in the order 1..6, and once a step has
\* failed (returned failure or raised) it is the last step started in the
\* run and the closing "Setup completed successfully" banner is not printed.
C1_HaltAtFirstFailure ==
  /\ Len(steps) <= 6
  /\ \A i \in 1..Len(steps) : steps[i] = i
  /\ failed # {} =>
       /\ failed = {steps[Len(steps)]}
       /\ "Setup completed successfully!" \notin Range(out)
       /\ pc # "su_done"

\* C1 witness: dependency installation failed and the run has ended with
\* only steps 1 and 2 started.
C1_Witness == pc = "exit" /\ failed = {2} /\ steps = <<1, 2>>

ProjectPrompts == {"Enter your Google Cloud project ID: ", "Enter your Google Cloud project ID manually: "}

NoProjectGiven == entry = "cli" /\ ~Truthy(args.project) /\ ~Truthy(environ)

\* C2 as stated: a CLI run with no --project and no GOOGLE_CLOUD_PROJECT asks
\* the user for the project identifier, and builds no client and sends no
\* request with an empty project.
C2_PromptsForProject ==
  (NoProjectGiven /\ pc = "exit") =>
    /\ \E i \in 1..Len(inputs) : inputs[i] \in ProjectPrompts
    /\ (client # None => Truthy(client))

\* C2 amended: a CLI run with no --project and no GOOGLE_CLOUD_PROJECT asks
\* the user nothing, builds no client and issues no generation request;
\* setup_client raises ValueError and the run ends with "Error:" printed and
\* exit status 1.
C2_NoProjectExitsWithError ==
  NoProjectGiven =>
    /\ inputs = <<>>
    /\ client = None
    /\ apiCalls = 0
    /\ pc \in {"cli_setup_client", "cli_except", "exit"}
    /\ (pc # "cli_setup_client" => (raised = {"setup_client"} /\ exc = "ValueError"))
    /\ (pc = "exit" => (status = 1 /\ out = <<"Error:">>))

\* C2 witness: such a run has ended.
C2_Witness == NoProjectGiven /\ pc = "exit" /\ status = 1

\* C3: a run in which the generation call, or the file write that follows
\* it, raised ends with a message printed and a non-zero exit status; in the
\* wizard the test step has returned failure.
C3_GenerationFailureExitsNonZero ==
  (pc = "exit" /\ raised \cap GenerationSites # {}) =>
    /\ out # <<>>
    /\ status # 0
    /\ (entry = "setup" => (6 \in failed /\ main_ret = "False"))

\* C4: check_gcloud_installation hands main an (ok, command) pair on every
\* return path, and a wizard run whose gcloud discovery failed ends with
\* main() having returned False, nothing raised and exit status 1.
C4_GcloudFailureIsStepFailure ==
  /\ (pc = "su_unpack_gcloud" => ret.kind = "tuple")
  /\ ((pc = "exit" /\ 3 \in failed) => (main_ret = "False" /\ raised = {} /\ status = 1))

\* The generation call returned and neither the open nor the write raised.
GeneratedAndWritten == apiCalls = 1 /\ response # <<>> /\ raised \cap GenerationSites = {}

\* C5: a run never creates more than one image file; a run whose generation
\* call succeeded (and whose write did not raise) ends with exactly one
\* file, closed, holding the bytes of generated_images[0] and of no other
\* image of the response.
C5_OneFileFirstImage ==
  /\ Cardinality(DOMAIN fs) <= 1
  /\ \A p \in DOMAIN fs : (fs[p].closed /\ "write" \notin raised) => fs[p].data = response[1]
  /\ (pc = "exit" /\ GeneratedAndWritten) =>
       /\ Cardinality(DOMAIN fs) = 1
       /\ \A p \in DOMAIN fs : fs[p].closed /\ fs[p].data = response[1]

\* C5 witness: a finished run whose response carried two different images
\* and whose one file holds the first.
C5_Witness ==
  /\ pc = "exit" /\ GeneratedAndWritten
  /\ Len(response) = 2 /\ response[1] # response[2]
  /\ \E p \in DOMAIN fs : fs[p].data = response[1]

SuccessMessages == {"Image saved to", "Image generated and saved", "Successfully connected to Imagen API!", "Test image saved to"}

\* Success has been reported: a success message, generate_image's path, or
\* the wizard's test step returning True (main on its way to return True).
Reported == Range(out) \cap SuccessMessages # {} \/ image_path # NoPath \/ pc = "su_done" \/ main_ret = "True"

\* C6: whenever success has been reported the output file is closed and
\* holds the whole first image; in a run whose open or write raised no
\* success is reported, no path or True is returned and no viewer is opened.
C6_WriteBeforeSuccess ==
  /\ Reported =>
       /\ raised \cap GenerationSites = {}
       /\ \E p \in DOMAIN fs : fs[p].closed /\ fs[p].data = response[1]
  /\ (viewer # NoPath => Reported)
  /\ (raised \cap WriteSites # {} => (~Reported /\ viewer = NoPath))

\* C6 witness: a CLI run whose write raised has ended.
C6_Witness == entry = "cli" /\ pc = "exit" /\ "write" \in raised

\* The listing failed, printed something that is not JSON, or printed the
\* empty JSON list.
FallbackListing(l) == l.kind \in {"fail", "nonjson"} \/ (l.kind = "json" /\ l.value = [type |-> "list", items |-> <<>>])

\* The user kept the id found in the environment.
Kept == conf.called /\ Truthy(conf.env0) /\ conf.change \notin {<<"y">>, <<"Y">>}

\* C7: when configure_project lists the projects and the listing fails, is
\* not JSON or is the empty list, the call raises nothing, its last question
\* is the manual-entry prompt and it returns (True, what the user typed).
C7_ManualFallback ==
  (conf.called /\ ~Kept /\ FallbackListing(conf.listing)) =>
     /\ "configure_project" \notin raised
     /\ pc = "su_unpack_project"
     /\ inputs # <<>> /\ inputs[Len(inputs)] \in ProjectPrompts
     /\ ret = Pair(TRUE, conf.typed)

\* C7 witness: the listing printed no JSON and the call returned the typed id.
C7_Witness == conf.called /\ ~Kept /\ conf.listing.kind = "nonjson" /\ conf.typed = ProjC /\ ret = Pair(TRUE, ProjC)

\* C8: the file the CLI writes is imagen4_<stem>.png in the output directory
\* (the temp directory when none is given), where the stem has
\* min(len(prompt), 30) characters, the i-th being the prompt's i-th
\* character when that is alphanumeric and an underscore otherwise.
C8_SanitizedFileName ==
  entry = "cli" =>
    \A p \in DOMAIN fs :
      /\ p.dir = (IF args.output_dir \in {None, <<>>} THEN TempDir ELSE args.output_dir)
      /\ Len(p.name) = (IF Len(prompt) < PrefixLen THEN Len(prompt) ELSE PrefixLen) + 2
      /\ p.name[1] = "imagen4_"
      /\ p.name[Len(p.name)] = ".png"
      /\ \A i \in 2..(Len(p.name) - 1) :
           /\ p.name[i] \in AlnumChars \cup {"_"}
           /\ p.name[i] = (IF prompt[i - 1] \in AlnumChars THEN prompt[i - 1] ELSE "_")

\* C8 witness: a prompt longer than 30 characters, with a character that is
\* not alphanumeric among the first 30, has had its file opened.
C8_Witness ==
  /\ entry = "cli" /\ DOMAIN fs # {}
  /\ Len(prompt) > PrefixLen
  /\ \E i \in 1..PrefixLen : prompt[i] \notin AlnumChars
  /\ \E i \in 1..PrefixLen : prompt[i] \in AlnumChars

\* C9: a run issues at most one generation request; once that request has
\* raised, no further request is issued and no file is written (neither an
\* image file nor .env) for the rest of the run.
C9_NoRetry ==
  /\ [](apiCalls <= 1)
  /\ []("generate" \in raised => DOMAIN fs = {})
  /\ [][("generate" \in raised) => (apiCalls' = apiCalls /\ fs' = fs /\ dotenv' = dotenv /\ envWrites' = envWrites)]_vars

\* C9 witness: a run whose generation request raised has ended.
C9_Witness == pc = "exit" /\ "generate" \in raised /\ apiCalls = 1

\* C10: when configure_project returns, the returned id is the value of
\* GOOGLE_CLOUD_PROJECT in the environment; if the user kept the existing
\* value the environment and .env are as before and the listing was not
\* run; otherwise .env was written once, with GOOGLE_CLOUD_PROJECT=<id>.
C10_ReturnedIdIsEnviron ==
  pc = "su_unpack_project" =>
    /\ ret.kind = "tuple" /\ ret.ok
    /\ ret.value = environ
    /\ IF Kept
         THEN environ = conf.env0 /\ dotenv = conf.dotenv0 /\ envWrites = 0 /\ listCalls = 0
         ELSE envWrites = 1 /\ listCalls = 1 /\ dotenv = <<"GOOGLE_CLOUD_PROJECT=">> \o ret.value \o <<"\n">>

\* C10 witness: the user replaced the environment's id with another one.
C10_Witness == pc = "su_unpack_project" /\ ~Kept /\ Truthy(conf.env0) /\ ret.value # conf.env0 /\ Truthy(ret.value)

\* configure_project showed a non-empty numbered list of projects.
ListedProjects == conf.called /\ ~Kept /\ conf.listing.kind = "json" /\ conf.listing.value.type = "list" /\ conf.listing.value.items # <<>>

\* What the user typed is all digits and denotes k.
Denotes(typed, k) == typed # <<>> /\ (\A i \in 1..Len(typed) : typed[i] \in {"0", "1", "2", "3", "4", "5", "6", "7", "8", "9"}) /\ IntOf(typed) = k

\* C11: with a non-empty list of n projects shown, configure_project returns
\* the k-th listed projectId when the typed text is all digits and denotes a
\* k with 1 <= k <= n, and returns every other typed text verbatim; the id
\* main hands to the test step is the id returned.
C11_SelectionOrVerbatim ==
  /\ ListedProjects =>
       /\ "configure_project" \notin raised
       /\ pc = "su_unpack_project"
       /\ LET items == conf.listing.value.items
          IN IF \E k \in 1..Len(items) : Denotes(conf.typed, k)
               THEN \E k \in 1..Len(items) : Denotes(conf.typed, k) /\ ret = Pair(TRUE, items[k].projectId)
               ELSE ret = Pair(TRUE, conf.typed)
  /\ (pc \in {"su_test_import", "su_test_generate"} => project_id = ret.value)
  /\ (pc = "su_test_generate" => client = ret.value)

CliNext == CliSetupClient \/ CliGetPrompt \/ CliGenerate \/ CliOpen \/ CliWrite \/ CliReport \/ CliGenExcept \/ CliDisplay \/ CliReturn \/ CliExcept

ExNext == ExGetProject \/ ExGenerate \/ ExOpen \/ ExWrite \/ ExReport \/ ExUncaught

SuNext == SuCheckPython \/ SuInstallDeps \/ SuCheckGcloud \/ SuUnpackGcloud \/ SuSetupAuth \/ SuConfigureProject \/ SuUnpackProject \/ SuTestImport \/ SuTestGenerate \/ SuTestOpen \/ SuTestWrite \/ SuTestReport \/ SuTestExcept \/ SuDone \/ SuExit \/ SuDunderExcept

Next == CliNext \/ ExNext \/ SuNext

Spec == Init /\ [][Next]_vars
====
